---------------------------- MODULE Spec2Model ----------------------------
(***************************************************************************)
(* TheBatchRAG: the multimodal ingestion-and-retrieval engine              *)
(* (src/app/multimodal_db.py, class MultimodalDatabase).                   *)
(*                                                                         *)
(* Abstractions                                                            *)
(*  - An embedding vector has one integer coordinate, <<x>>; a cosine      *)
(*    distance is the absolute difference of two coordinates, counted in   *)
(*    tenths, so that "1 - distance" is  Unit - distance  with Unit = 10.  *)
(*  - A string is the tuple of its parts: f"article_{i}" is                *)
(*    <<"article", i>>, the query "q" is <<"q">> where it is encoded.      *)
(*  - A JSON text is the sequence of its tokens.                           *)
(*  - The four parallel lists (documents, metadatas, ids, embeddings) of   *)
(*    add_articles are one list of records with these four fields.         *)
(*  - The metadata fields 'url' and 'metadata' are copied through by the   *)
(*    code and read by nothing modelled here; they are left out.           *)
(*  - chromadb's Collection.add skips a record whose id is already stored  *)
(*    (it logs "Add of existing embedding ID" and keeps the stored         *)
(*    record); it raises DuplicateIDError when one batch repeats an id.    *)
(*    Collection.query returns the nearest n_results records by ascending  *)
(*    distance, fewer when the collection is smaller, and rejects          *)
(*    n_results <= 0 with an error.                                        *)
(***************************************************************************)
EXTENDS Integers, Sequences, FiniteSets, TLC

(***************************************************************************)
(* Bounds of the model.                                                    *)
(***************************************************************************)
MaxDocs == 2

MaxK == 4

MaxRuns == 2

MaxLoadMore == 2

(***************************************************************************)
(* Small helpers.                                                          *)
(***************************************************************************)
Abs(x) == IF x < 0 THEN -x ELSE x

Min(a, b) == IF a <= b THEN a ELSE b

SeqsUpTo(S, n) == UNION {[1..m -> S] : m \in 0..n}

(***************************************************************************)
(* The Documents handed to add_articles.  NoAttr marks an attribute the    *)
(* object does not have (hasattr is false).                                *)
(***************************************************************************)
NoAttr == "<no attribute>"

Article(t, c, imgs) == [title |-> t, content |-> c, images |-> imgs]

ArticleCatalogue ==
    { Article("Car Engines", "car truck engine", <<"img1.jpg">>),
      Article("Pear Orchard", "pear apple fruit", <<"corrupt.jpg", "img2.jpg">>),
      Article("Untitled", NoAttr, <<"img1.jpg">>) }

ArticleLists == SeqsUpTo(ArticleCatalogue, MaxDocs)

Queries == {"pear fruit", "car engine"}

(***************************************************************************)
(* The encoders.  text_model.encode and the CLIP towers are deterministic  *)
(* functions of their input; a file that cannot be opened as an image      *)
(* makes Image.open raise.                                                 *)
(***************************************************************************)
CorruptImages == {"corrupt.jpg"}

TextEncode(text) ==
    CASE text = <<"pear fruit">> -> <<0>>
      [] text = <<"car engine">> -> <<4>>
      [] text = <<"Pear Orchard", "\n\n", "pear apple fruit">> -> <<1>>
      [] text = <<"Car Engines", "\n\n", "car truck engine">> -> <<3>>
      [] OTHER -> <<2>>

ClipImageFeatures(image_path) ==
    CASE image_path = "img1.jpg" -> <<3>>
      [] image_path = "img2.jpg" -> <<1>>
      [] OTHER -> <<2>>

ClipTextFeatures(query) ==
    CASE query = "pear fruit" -> <<0>>
      [] query = "car engine" -> <<4>>
      [] OTHER -> <<2>>

CosineDistance(u, v) == Abs(u[1] - v[1])

Unit == 10

(***************************************************************************)
(* json.dumps / json.loads on a list of strings.                           *)
(***************************************************************************)
RECURSIVE JsonItems(_)
JsonItems(list) ==
    IF list = <<>> THEN <<>>
    ELSE IF Len(list) = 1 THEN <<list[1]>>
    ELSE <<list[1], ",">> \o JsonItems(Tail(list))

JsonDumps(list) == <<"[">> \o JsonItems(list) \o <<"]">>

\* A parse that takes the separators for items.
JsonLoadsKeepsSeparators(text) == SubSeq(text, 2, Len(text) - 1)

JsonLoads(text) ==
    LET inner == SubSeq(text, 2, Len(text) - 1)
    IN  [n \in 1..((Len(inner) + 1) \div 2) |-> inner[2 * n - 1]]

(***************************************************************************)
(* add_articles: the per-article part of the loop (lines 61-105).          *)
(***************************************************************************)
None == <<>>

HasTitle(article) == article.title # NoAttr

HasTitleAndContent(article) ==
    article.title # NoAttr /\ article.content # NoAttr

DocText(article) == <<article.title, "\n\n", article.content>>

TextIdFromOne(i) == <<"article", i + 1>>

TextId(i) == <<"article", i>>

ImageId(i, j) == <<"image", i, j>>

TextMetadata(article) ==
    [title |-> article.title,
     images |-> JsonDumps(article.images),
     type |-> "text"]

ImageMetadataNextParent(article, i, image_path) ==
    [title |-> article.title,
     images |-> JsonDumps(article.images),
     type |-> "image",
     image_path |-> image_path,
     parent_article |-> TextId(i + 1)]

ImageMetadata(article, i, image_path) ==
    [title |-> article.title,
     images |-> JsonDumps(article.images),
     type |-> "image",
     image_path |-> image_path,
     parent_article |-> TextId(i)]

TextRecord(article, i) ==
    [id |-> TextId(i),
     document |-> DocText(article),
     metadata |-> TextMetadata(article),
     embedding |-> TextEncode(DocText(article))]

\* _encode_image: None without CLIP, None when the image cannot be read.
EncodeImage(clip, image_path) ==
    IF ~clip THEN None
    ELSE IF image_path \in CorruptImages THEN None
    ELSE ClipImageFeatures(image_path)

\* The loop left at the first image that does not encode.
RECURSIVE ImageRecordsUntilFailure(_, _, _, _)
ImageRecordsUntilFailure(clip, article, i, j) ==
    IF j >= Len(article.images) THEN <<>>
    ELSE LET image_path == article.images[j + 1]
             image_embedding == EncodeImage(clip, image_path)
         IN  IF image_embedding = None THEN <<>>
             ELSE <<[id |-> ImageId(i, j),
                     document |-> <<"Image from: ", article.title>>,
                     metadata |-> ImageMetadata(article, i, image_path),
                     embedding |-> image_embedding]>>
                  \o ImageRecordsUntilFailure(clip, article, i, j + 1)

\* The inner loop over enumerate(images), from index j (0-based) on.
RECURSIVE ImageRecordsFrom(_, _, _, _)
ImageRecordsFrom(clip, article, i, j) ==
    IF j >= Len(article.images) THEN <<>>
    ELSE LET image_path == article.images[j + 1]
             image_embedding == EncodeImage(clip, image_path)
             this == IF image_embedding # None
                     THEN <<[id |-> ImageId(i, j),
                             document |-> <<"Image from: ", article.title>>,
                             metadata |-> ImageMetadata(article, i, image_path),
                             embedding |-> image_embedding]>>
                     ELSE <<>>
         IN  this \o ImageRecordsFrom(clip, article, i, j + 1)

ImageRecords(clip, article, i) == ImageRecordsFrom(clip, article, i, 0)

(***************************************************************************)
(* chromadb Collection.add and Collection.count.                           *)
(***************************************************************************)
Ids(records) == {records[n].id : n \in 1..Len(records)}

AppendAll(collection, batch) == collection \o batch

RECURSIVE AppendNew(_, _)
AppendNew(collection, batch) ==
    IF batch = <<>> THEN collection
    ELSE AppendNew(IF Head(batch).id \in Ids(collection)
                   THEN collection
                   ELSE Append(collection, Head(batch)),
                   Tail(batch))

CollectionAdd(collection, batch) ==
    IF Cardinality(Ids(batch)) # Len(batch)
    THEN [raised |-> TRUE, collection |-> collection]
    ELSE [raised |-> FALSE, collection |-> AppendNew(collection, batch)]

Count(collection) == Len(collection)

(***************************************************************************)
(* chromadb Collection.query: the n_results nearest records, nearest       *)
(* first; records at the same distance come in insertion order.            *)
(***************************************************************************)
Hit(record, query_embedding) ==
    [document |-> record.document,
     metadata |-> record.metadata,
     distance |-> CosineDistance(query_embedding, record.embedding)]

\* hits is ascending by distance; h goes after every hit that is not farther.
InsertByDistance(hits, h) ==
    LET p == Cardinality({n \in 1..Len(hits) : hits[n].distance <= h.distance})
    IN  SubSeq(hits, 1, p) \o <<h>> \o SubSeq(hits, p + 1, Len(hits))

RECURSIVE NearestFirst(_, _)
NearestFirst(collection, query_embedding) ==
    IF collection = <<>> THEN <<>>
    ELSE InsertByDistance(
             NearestFirst(SubSeq(collection, 1, Len(collection) - 1),
                          query_embedding),
             Hit(collection[Len(collection)], query_embedding))

CollectionQuery(collection, query_embedding, n_results) ==
    IF n_results <= 0
    THEN [raised |-> TRUE, hits |-> <<>>]
    ELSE LET all == NearestFirst(collection, query_embedding)
         IN  [raised |-> FALSE,
              hits |-> SubSeq(all, 1, Min(n_results, Len(all)))]

(***************************************************************************)
(* search (lines 146-210).                                                 *)
(***************************************************************************)
TextResult(hit, include_images) ==
    [type |-> "text",
     content |-> hit.document,
     metadata |-> hit.metadata,
     similarity |-> Unit - hit.distance,
     images |-> IF include_images THEN JsonLoads(hit.metadata.images) ELSE <<>>]

ImageResult(hit) ==
    [type |-> "image",
     content |-> hit.document,
     metadata |-> hit.metadata,
     similarity |-> Unit - hit.distance,
     image_path |-> hit.metadata.image_path]

InsertBySimilarityUnstable(sorted, x) ==
    LET p == Cardinality({n \in 1..Len(sorted) :
                              sorted[n].similarity > x.similarity})
    IN  SubSeq(sorted, 1, p) \o <<x>> \o SubSeq(sorted, p + 1, Len(sorted))

\* processed_results.sort(key=similarity, reverse=True): a stable sort, so
\* x goes after every entry whose similarity is not smaller.
InsertBySimilarity(sorted, x) ==
    LET p == Cardinality({n \in 1..Len(sorted) :
                              sorted[n].similarity >= x.similarity})
    IN  SubSeq(sorted, 1, p) \o <<x>> \o SubSeq(sorted, p + 1, Len(sorted))

RECURSIVE SortBySimilarity(_)
SortBySimilarity(results) ==
    IF results = <<>> THEN <<>>
    ELSE InsertBySimilarity(
             SortBySimilarity(SubSeq(results, 1, Len(results) - 1)),
             results[Len(results)])

TopResults(processed_results, n_results) ==
    SubSeq(SortBySimilarity(processed_results), 1,
           Min(n_results, Len(processed_results)))

(***************************************************************************)
(* A fault is where the environment makes a call of search fail:           *)
(*   text_encode  text_model.encode(query)            line 149             *)
(*   text_query   text_collection.query               line 152             *)
(*   clip_text    the CLIP text tower                 lines 178-183        *)
(*   image_query  image_collection.query              line 185             *)
(*   image_hit    building the n-th image result      lines 197-203        *)
(***************************************************************************)
NoFault == [at |-> "none", n |-> 0]

SearchFaults ==
    {NoFault}
    \cup {[at |-> a, n |-> 0] :
            a \in {"text_encode", "text_query", "clip_text", "image_query"}}
    \cup {[at |-> "image_hit", n |-> n] : n \in 1..(MaxK \div 2)}

ImageBranchNoClipCheck(image_coll, clip, query, n_results, include_images, fault) ==
    IF ~include_images
    THEN [appended |-> <<>>, queried |-> FALSE, caught |-> FALSE, hits |-> <<>>]
    ELSE LET image_results ==
                 CollectionQuery(image_coll, ClipTextFeatures(query),
                                 n_results \div 2)
         IN  [appended |-> [n \in 1..Len(image_results.hits) |->
                               ImageResult(image_results.hits[n])],
              queried |-> TRUE,
              caught |-> image_results.raised,
              hits |-> image_results.hits]

\* The image branch asking for n_results neighbours.
ImageBranchAsksForAll(image_coll, clip, query, n_results, include_images, fault) ==
    IF ~(include_images /\ clip)
    THEN [appended |-> <<>>, queried |-> FALSE, caught |-> FALSE, hits |-> <<>>]
    ELSE LET image_results ==
                 CollectionQuery(image_coll, ClipTextFeatures(query), n_results)
         IN  [appended |-> [n \in 1..Len(image_results.hits) |->
                               ImageResult(image_results.hits[n])],
              queried |-> TRUE,
              caught |-> image_results.raised,
              hits |-> image_results.hits]

\* The image branch, lines 175-206: the image results appended before the
\* branch ended, whether the query was sent, whether the except clause ran.
ImageBranch(image_coll, clip, query, n_results, include_images, fault) ==
    IF ~(include_images /\ clip)
    THEN [appended |-> <<>>, queried |-> FALSE, caught |-> FALSE, hits |-> <<>>]
    ELSE IF fault.at = "clip_text"
    THEN [appended |-> <<>>, queried |-> FALSE, caught |-> TRUE, hits |-> <<>>]
    ELSE IF fault.at = "image_query"
    THEN [appended |-> <<>>, queried |-> TRUE, caught |-> TRUE, hits |-> <<>>]
    ELSE LET image_results ==
                 CollectionQuery(image_coll, ClipTextFeatures(query),
                                 n_results \div 2)
             hits == image_results.hits
             stop == IF fault.at = "image_hit" /\ fault.n <= Len(hits)
                     THEN fault.n - 1
                     ELSE Len(hits)
         IN  [appended |-> [n \in 1..stop |-> ImageResult(hits[n])],
              queried |-> TRUE,
              caught |-> image_results.raised \/ stop < Len(hits),
              hits |-> hits]

SearchDbCatchesAll(text_coll, image_coll, clip, query, n_results, include_images, fault) ==
    LET branch == ImageBranch(image_coll, clip, query, n_results,
                              include_images, fault)
    IN  [raised |-> FALSE,
         results |-> TopResults(branch.appended, n_results),
         image_queried |-> branch.queried,
         image_caught |-> branch.caught,
         text_hits |-> <<>>,
         image_hits |-> branch.hits]

SearchDb(text_coll, image_coll, clip, query, n_results, include_images, fault) ==
    IF fault.at \in {"text_encode", "text_query"}
    THEN [raised |-> TRUE, results |-> <<>>, image_queried |-> FALSE,
          image_caught |-> FALSE, text_hits |-> <<>>, image_hits |-> <<>>]
    ELSE LET text_results ==
                 CollectionQuery(text_coll, TextEncode(<<query>>), n_results)
             from_text ==
                 [n \in 1..Len(text_results.hits) |->
                     TextResult(text_results.hits[n], include_images)]
             branch == ImageBranch(image_coll, clip, query, n_results,
                                   include_images, fault)
         IN  IF text_results.raised
             THEN [raised |-> TRUE, results |-> <<>>,
                   image_queried |-> FALSE, image_caught |-> FALSE,
                   text_hits |-> <<>>, image_hits |-> <<>>]
             ELSE [raised |-> FALSE,
                   results |-> TopResults(from_text \o branch.appended,
                                          n_results),
                   image_queried |-> branch.queried,
                   image_caught |-> branch.caught,
                   text_hits |-> text_results.hits,
                   image_hits |-> branch.hits]

GetStatsTextOnly(text_coll, image_coll) ==
    [total_documents |-> Count(text_coll),
     text_documents |-> Count(text_coll),
     image_documents |-> Count(image_coll)]

\* get_stats (lines 212-225).
GetStats(text_coll, image_coll) ==
    [total_documents |-> Count(text_coll) + Count(image_coll),
     text_documents |-> Count(text_coll),
     image_documents |-> Count(image_coll)]

(***************************************************************************)
(* The state.                                                              *)
(*   clip_model        TRUE when CLIP loaded in __init__, FALSE when the   *)
(*                     except clause of lines 29-32 set it to None         *)
(*   text_collection, image_collection   the two chromadb collections      *)
(*   pc                where add_articles stands: "idle" (not running),    *)
(*                     "loop", "add_text", "add_image"                     *)
(*   articles, i       the argument and the loop index of add_articles     *)
(*   text_batch, image_batch   the records collected by the loop           *)
(* and, recorded for the properties,                                       *)
(*   status            how the last add_articles ended: "none", "running", *)
(*                     "ok", "raised"                                      *)
(*   raised_by         what made it raise                                  *)
(*   text_adds, image_adds     the calls of add issued by the run          *)
(*   text_before, image_before the collections when the run began          *)
(*   rerun             the run repeats the articles of a run that ended ok *)
(*   runs              the runs begun                                      *)
(*   response          the last search: its arguments and what it gave     *)
(***************************************************************************)
VARIABLES clip_model, text_collection, image_collection, pc, articles, i,
          text_batch, image_batch, status, raised_by, text_adds, image_adds,
          text_before, image_before, rerun, runs, response

(***************************************************************************)
(* The state of BatchScraper._get_all_pages_links from line 146 on         *)
(* (src/app/scraper.py).                                                   *)
(*   sc_pc          "start" (line 146), "get" (line 154), "page" (top of   *)
(*                  the while loop, line 158), "finally" (line 193),       *)
(*                  "done" (line 195); "off" while the method is not run   *)
(*   category       the index of the category of the for loop, from 1      *)
(*   driver         "none", "live", "quit"                                 *)
(*   all_links      the links collected; a link is <<category, n>>, the    *)
(*                  n-th batch of articles the page of the category shows  *)
(*   shown          the batches the loaded page shows                      *)
(*   load_more_left how many more times the page offers 'Load More'        *)
(* and, recorded for the properties,                                       *)
(*   quits          the calls of driver.quit()                             *)
(*   used_after_quit  a command was sent to the driver after quit()        *)
(*   paging_end     how the try block of the category was left             *)
(***************************************************************************)
VARIABLES sc_pc, category, driver, all_links, shown, load_more_left, quits,
          used_after_quit, paging_end

scraper_vars == <<sc_pc, category, driver, all_links, shown, load_more_left,
                  quits, used_after_quit, paging_end>>

db_vars == <<clip_model, text_collection, image_collection, pc, articles, i,
             text_batch, image_batch, status, raised_by, text_adds, image_adds,
             text_before, image_before, rerun, runs, response>>

vars == <<clip_model, text_collection, image_collection, pc, articles, i,
          text_batch, image_batch, status, raised_by, text_adds, image_adds,
          text_before, image_before, rerun, runs, response, sc_pc, category,
          driver, all_links, shown, load_more_left, quits, used_after_quit,
          paging_end>>

\* _get_all_pages_links is not running.
ScraperOff ==
    /\ sc_pc = "off"
    /\ category = 0
    /\ driver = "none"
    /\ all_links = {}
    /\ shown = 0
    /\ load_more_left = 0
    /\ quits = 0
    /\ used_after_quit = FALSE
    /\ paging_end = "none"

collections == <<text_collection, image_collection>>

run_vars == <<pc, articles, i, text_batch, image_batch, status, raised_by,
              text_adds, image_adds, text_before, image_before, rerun, runs>>

NoResponse == [op |-> "none"]

\* __init__ (lines 11-47): CLIP loads or not; the collections are created.
Init ==
    /\ clip_model \in BOOLEAN
    /\ text_collection = <<>>
    /\ image_collection = <<>>
    /\ pc = "idle"
    /\ articles = <<>>
    /\ i = 0
    /\ text_batch = <<>>
    /\ image_batch = <<>>
    /\ status = "none"
    /\ raised_by = "none"
    /\ text_adds = 0
    /\ image_adds = 0
    /\ text_before = <<>>
    /\ image_before = <<>>
    /\ rerun = FALSE
    /\ runs = 0
    /\ response = NoResponse
    /\ ScraperOff

AfterLoopPc(next_i, list) == IF next_i < Len(list) THEN "loop" ELSE "add_text"

\* add_articles is called (lines 49-59).
BeginAddArticles(list) ==
    /\ pc = "idle"
    /\ runs < MaxRuns
    /\ runs' = runs + 1
    /\ articles' = list
    /\ i' = 0
    /\ text_batch' = <<>>
    /\ image_batch' = <<>>
    /\ pc' = AfterLoopPc(0, list)
    /\ status' = "running"
    /\ raised_by' = "none"
    /\ text_adds' = 0
    /\ image_adds' = 0
    /\ text_before' = text_collection
    /\ image_before' = image_collection
    /\ rerun' = (status = "ok" /\ list = articles)
    /\ response' = NoResponse
    /\ UNCHANGED <<clip_model, collections>>
    /\ UNCHANGED scraper_vars

\* The exception leaves add_articles.
Raise(cause) ==
    /\ pc' = "idle"
    /\ status' = "raised"
    /\ raised_by' = cause

\* One pass of the loop of lines 61-105.
LoopSkip ==
    /\ pc = "loop"
    /\ ~HasTitleAndContent(articles[i + 1])
    /\ i' = i + 1
    /\ pc' = AfterLoopPc(i + 1, articles)
    /\ UNCHANGED <<clip_model, collections, articles, text_batch, image_batch,
                   status, raised_by, text_adds, image_adds, text_before,
                   image_before, rerun, runs, response>>
    /\ UNCHANGED scraper_vars

\* The loop writing each article's records as soon as they are made.
LoopCollectAndFlush ==
    /\ pc = "loop"
    /\ HasTitleAndContent(articles[i + 1])
    /\ text_batch' = Append(text_batch, TextRecord(articles[i + 1], i))
    /\ image_batch' = image_batch \o ImageRecords(clip_model, articles[i + 1], i)
    /\ text_collection' =
          AppendNew(text_collection, <<TextRecord(articles[i + 1], i)>>)
    /\ image_collection' =
          AppendNew(image_collection, ImageRecords(clip_model, articles[i + 1], i))
    /\ i' = i + 1
    /\ pc' = AfterLoopPc(i + 1, articles)
    /\ UNCHANGED <<clip_model, articles, status, raised_by, text_adds,
                   image_adds, text_before, image_before, rerun, runs,
                   response>>
    /\ UNCHANGED scraper_vars

LoopCollect ==
    /\ pc = "loop"
    /\ HasTitleAndContent(articles[i + 1])
    /\ text_batch' = Append(text_batch, TextRecord(articles[i + 1], i))
    /\ image_batch' = image_batch \o ImageRecords(clip_model, articles[i + 1], i)
    /\ i' = i + 1
    /\ pc' = AfterLoopPc(i + 1, articles)
    /\ UNCHANGED <<clip_model, collections, articles, status, raised_by,
                   text_adds, image_adds, text_before, image_before, rerun,
                   runs, response>>
    /\ UNCHANGED scraper_vars

\* text_model.encode(doc_text) raises at line 79: nothing catches it.
LoopEncodeFails ==
    /\ pc = "loop"
    /\ HasTitleAndContent(articles[i + 1])
    /\ Raise("text_encode")
    /\ UNCHANGED <<clip_model, collections, articles, i, text_batch,
                   image_batch, text_adds, image_adds, text_before,
                   image_before, rerun, runs, response>>
    /\ UNCHANGED scraper_vars

\* Lines 108-115.
AddText ==
    /\ pc = "add_text"
    /\ IF text_batch = <<>>
       THEN /\ pc' = "add_image"
            /\ UNCHANGED <<text_collection, text_adds, status, raised_by>>
       ELSE LET r == CollectionAdd(text_collection, text_batch)
            IN  /\ text_adds' = text_adds + 1
                /\ IF r.raised
                   THEN Raise("text_add_rejected") /\ UNCHANGED text_collection
                   ELSE /\ text_collection' = r.collection
                        /\ pc' = "add_image"
                        /\ UNCHANGED <<status, raised_by>>
    /\ UNCHANGED <<clip_model, image_collection, articles, i, text_batch,
                   image_batch, image_adds, text_before, image_before, rerun,
                   runs, response>>
    /\ UNCHANGED scraper_vars

\* The failure of the call of line 109 logged and the run going on.
AddTextFailsAndGoesOn ==
    /\ pc = "add_text"
    /\ text_batch # <<>>
    /\ text_adds' = text_adds + 1
    /\ pc' = "add_image"
    /\ UNCHANGED <<clip_model, collections, articles, i, text_batch,
                   image_batch, status, raised_by, image_adds, text_before,
                   image_before, rerun, runs, response>>
    /\ UNCHANGED scraper_vars

\* The store fails the call of line 109.
AddTextFails ==
    /\ pc = "add_text"
    /\ text_batch # <<>>
    /\ text_adds' = text_adds + 1
    /\ Raise("text_add")
    /\ UNCHANGED <<clip_model, collections, articles, i, text_batch,
                   image_batch, image_adds, text_before, image_before, rerun,
                   runs, response>>
    /\ UNCHANGED scraper_vars

\* Lines 117-124, and the return.
AddImage ==
    /\ pc = "add_image"
    /\ IF image_batch = <<>>
       THEN /\ pc' = "idle"
            /\ status' = "ok"
            /\ UNCHANGED <<image_collection, image_adds, raised_by>>
       ELSE LET r == CollectionAdd(image_collection, image_batch)
            IN  /\ image_adds' = image_adds + 1
                /\ IF r.raised
                   THEN Raise("image_add_rejected") /\ UNCHANGED image_collection
                   ELSE /\ image_collection' = r.collection
                        /\ pc' = "idle"
                        /\ status' = "ok"
                        /\ UNCHANGED raised_by
    /\ UNCHANGED <<clip_model, text_collection, articles, i, text_batch,
                   image_batch, text_adds, text_before, image_before, rerun,
                   runs, response>>
    /\ UNCHANGED scraper_vars

\* The store fails the call of line 118.
AddImageFails ==
    /\ pc = "add_image"
    /\ image_batch # <<>>
    /\ image_adds' = image_adds + 1
    /\ Raise("image_add")
    /\ UNCHANGED <<clip_model, collections, articles, i, text_batch,
                   image_batch, text_adds, text_before, image_before, rerun,
                   runs, response>>
    /\ UNCHANGED scraper_vars

\* A search that drops the image collection when its image branch fails.
SearchDropsImagesOnFailure(query, n_results, include_images, fault) ==
    LET out == SearchDb(text_collection, image_collection, clip_model,
                        query, n_results, include_images, fault)
    IN  /\ pc = "idle"
        /\ response = NoResponse
        /\ response' =
              [op |-> "search", query |-> query, n_results |-> n_results,
               include_images |-> include_images, fault |-> fault,
               out |-> out]
        /\ image_collection' = IF out.image_caught THEN <<>> ELSE image_collection
        /\ UNCHANGED <<clip_model, text_collection, run_vars>>
        /\ UNCHANGED scraper_vars

\* search is called while no add_articles runs.
Search(query, n_results, include_images, fault) ==
    /\ pc = "idle"
    /\ response = NoResponse
    /\ response' =
          [op |-> "search", query |-> query, n_results |-> n_results,
           include_images |-> include_images, fault |-> fault,
           out |-> SearchDb(text_collection, image_collection, clip_model,
                            query, n_results, include_images, fault)]
    /\ UNCHANGED <<clip_model, collections, run_vars>>
    /\ UNCHANGED scraper_vars

\* The process ends, at any point, and a new one runs __init__ on the same
\* persist_directory: CLIP loads or not, get_or_create_collection finds the
\* stored collections, whatever add_articles held in memory is gone.
Restart ==
    /\ clip_model' \in BOOLEAN
    /\ pc' = "idle"
    /\ articles' = <<>>
    /\ i' = 0
    /\ text_batch' = <<>>
    /\ image_batch' = <<>>
    /\ status' = "none"
    /\ raised_by' = "none"
    /\ text_adds' = 0
    /\ image_adds' = 0
    /\ text_before' = <<>>
    /\ image_before' = <<>>
    /\ rerun' = FALSE
    /\ response' = NoResponse
    /\ UNCHANGED <<collections, runs>>
    /\ UNCHANGED scraper_vars

\* get_stats is called while no add_articles runs.
Stats ==
    /\ pc = "idle"
    /\ response = NoResponse
    /\ response' = [op |-> "stats",
                    out |-> GetStats(text_collection, image_collection)]
    /\ UNCHANGED <<clip_model, collections, run_vars>>
    /\ UNCHANGED scraper_vars

\* The caller is done with what search or get_stats returned.
Forget ==
    /\ pc = "idle"
    /\ response # NoResponse
    /\ response' = NoResponse
    /\ UNCHANGED <<clip_model, collections, run_vars>>
    /\ UNCHANGED scraper_vars

Next ==
    \/ \E list \in ArticleLists : BeginAddArticles(list)
    \/ LoopSkip
    \/ LoopCollect
    \/ LoopEncodeFails
    \/ AddText
    \/ AddTextFails
    \/ AddImage
    \/ AddImageFails
    \/ Stats
    \/ Forget
    \/ Restart

Spec == Init /\ [][Next]_vars

(***************************************************************************)
(* The searches against a store that is not being written: the collections *)
(* are what one add_articles left from an empty store (by a process that   *)
(* had CLIP or not, and whose add of the images succeeded or failed), and  *)
(* the serving process has CLIP or not.                                    *)
(***************************************************************************)
RECURSIVE TextBatchUpTo(_, _)
TextBatchUpTo(list, n) ==
    IF n = 0 THEN <<>>
    ELSE TextBatchUpTo(list, n - 1)
         \o (IF HasTitleAndContent(list[n])
             THEN <<TextRecord(list[n], n - 1)>>
             ELSE <<>>)

RECURSIVE ImageBatchUpTo(_, _, _)
ImageBatchUpTo(clip, list, n) ==
    IF n = 0 THEN <<>>
    ELSE ImageBatchUpTo(clip, list, n - 1)
         \o (IF HasTitleAndContent(list[n])
             THEN ImageRecords(clip, list[n], n - 1)
             ELSE <<>>)

SearchInit ==
    /\ clip_model \in BOOLEAN
    /\ \E list \in ArticleLists, clip \in BOOLEAN :
          /\ text_collection =
               CollectionAdd(<<>>, TextBatchUpTo(list, Len(list))).collection
          /\ image_collection \in
               {<<>>,
                CollectionAdd(<<>>, ImageBatchUpTo(clip, list, Len(list))).collection}
    /\ pc = "idle"
    /\ articles = <<>>
    /\ i = 0
    /\ text_batch = <<>>
    /\ image_batch = <<>>
    /\ status = "none"
    /\ raised_by = "none"
    /\ text_adds = 0
    /\ image_adds = 0
    /\ text_before = <<>>
    /\ image_before = <<>>
    /\ rerun = FALSE
    /\ runs = 0
    /\ response = NoResponse
    /\ ScraperOff

SearchNext ==
    \/ \E query \in Queries, n_results \in 1..MaxK,
          include_images \in BOOLEAN, fault \in SearchFaults :
            Search(query, n_results, include_images, fault)
    \/ Forget

SearchSpec == SearchInit /\ [][SearchNext]_vars

(***************************************************************************)
(* BatchScraper._get_all_pages_links, the 'Load More' part (lines 146-195  *)
(* of src/app/scraper.py).  A page of a category shows batches of article  *)
(* links; while it offers a 'Load More' button a click may load one more   *)
(* batch.                                                                  *)
(***************************************************************************)
NumCategories == 6

\* Links the first part of the method (lines 99-143) may have collected:
\* some are links the category pages show as well.
EarlierLinks == {<<0, 1>>, <<1, 1>>, <<2, 1>>}

CurrentLinks == {<<category, n>> : n \in 1..shown}

NewLinks == CurrentLinks \ all_links

\* _find_load_more_by_text (lines 69-79): the element and the pattern when a
\* displayed, enabled button is there; otherwise the method falls off its
\* end and returns None.
FindLoadMoreByText(left) ==
    IF left > 0 THEN <<"element", "Load More">> ELSE None

ScraperInit ==
    /\ clip_model = FALSE
    /\ text_collection = <<>>
    /\ image_collection = <<>>
    /\ pc = "idle"
    /\ articles = <<>>
    /\ i = 0
    /\ text_batch = <<>>
    /\ image_batch = <<>>
    /\ status = "none"
    /\ raised_by = "none"
    /\ text_adds = 0
    /\ image_adds = 0
    /\ text_before = <<>>
    /\ image_before = <<>>
    /\ rerun = FALSE
    /\ runs = 0
    /\ response = NoResponse
    /\ sc_pc = "start"
    /\ category = 0
    /\ driver = "none"
    /\ all_links \in SUBSET EarlierLinks
    /\ shown = 0
    /\ load_more_left = 0
    /\ quits = 0
    /\ used_after_quit = FALSE
    /\ paging_end = "none"

\* Lines 147-149: the driver is started, once, before the for loop.
OpenDriver ==
    /\ sc_pc = "start"
    /\ driver' = "live"
    /\ category' = 1
    /\ sc_pc' = "get"
    /\ UNCHANGED <<all_links, shown, load_more_left, quits, used_after_quit,
                   paging_end>>
    /\ UNCHANGED db_vars

\* Line 154 on a live driver: the page of the category is loaded.
GetCategory ==
    /\ sc_pc = "get"
    /\ driver = "live"
    /\ \E first \in 0..1, left \in 0..MaxLoadMore :
          /\ shown' = first
          /\ load_more_left' = left
    /\ paging_end' = "none"
    /\ sc_pc' = "page"
    /\ UNCHANGED <<category, driver, all_links, quits, used_after_quit>>
    /\ UNCHANGED db_vars

\* Line 154 raises: always on a driver that was quit, possibly on a live
\* one; the except clause of line 190 logs and the finally clause follows.
GetRaises ==
    /\ sc_pc = "get"
    /\ used_after_quit' = (used_after_quit \/ driver = "quit")
    /\ paging_end' = "driver_error"
    /\ sc_pc' = "finally"
    /\ UNCHANGED <<category, driver, all_links, shown, load_more_left, quits>>
    /\ UNCHANGED db_vars

\* One pass of the while loop (lines 158-188) in which the button is found:
\* the links are collected, the button is clicked, and the loop is left by
\* the break of line 188 when the pass found no new link.
PageWithButton ==
    /\ sc_pc = "page"
    /\ FindLoadMoreByText(load_more_left) # None
    /\ all_links' = all_links \cup NewLinks
    /\ load_more_left' = load_more_left - 1
    /\ \E loaded \in 0..1 : shown' = shown + loaded
    /\ IF NewLinks = {}
       THEN sc_pc' = "finally" /\ paging_end' = "no_new_links"
       ELSE sc_pc' = "page" /\ paging_end' = "none"
    /\ UNCHANGED <<category, driver, quits, used_after_quit>>
    /\ UNCHANGED db_vars

\* One pass in which no button is found: the links are collected, then
\* line 174 unpacks None into two names and raises TypeError, which the
\* except clause of line 190 logs.  (The else branch of line 182 would need
\* a tuple whose first item is false, which _find_load_more_by_text never
\* returns.)
PageWithoutButton ==
    /\ sc_pc = "page"
    /\ FindLoadMoreByText(load_more_left) = None
    /\ all_links' = all_links \cup NewLinks
    /\ paging_end' = "unpack_error"
    /\ sc_pc' = "finally"
    /\ UNCHANGED <<category, driver, shown, load_more_left, quits,
                   used_after_quit>>
    /\ UNCHANGED db_vars

\* Line 193, inside the for loop: driver.quit() after every category; then
\* the next category, or the return of line 195.
Finally ==
    /\ sc_pc = "finally"
    /\ quits' = quits + 1
    /\ driver' = "quit"
    /\ IF category < NumCategories
       THEN category' = category + 1 /\ sc_pc' = "get"
       ELSE category' = category /\ sc_pc' = "done"
    /\ UNCHANGED <<all_links, shown, load_more_left, used_after_quit,
                   paging_end>>
    /\ UNCHANGED db_vars

ScraperNext ==
    \/ OpenDriver
    \/ GetCategory
    \/ GetRaises
    \/ PageWithButton
    \/ PageWithoutButton
    \/ Finally

ScraperSpec == ScraperInit /\ [][ScraperNext]_vars

TypeOK ==
    /\ clip_model \in BOOLEAN
    /\ pc \in {"idle", "loop", "add_text", "add_image"}
    /\ status \in {"none", "running", "ok", "raised"}
    /\ i \in 0..Len(articles)
    /\ runs \in 0..MaxRuns

(***************************************************************************)
(* Properties of search.                                                   *)
(***************************************************************************)
Searched == response.op = "search"

Returned == Searched /\ ~response.out.raised

TextFault(fault) == fault.at \in {"text_encode", "text_query"}

\* The text results followed by the image results, as the two queries of
\* the response gave them.
Concatenated ==
    [n \in 1..Len(response.out.text_hits) |->
        TextResult(response.out.text_hits[n], response.include_images)]
    \o [n \in 1..Len(response.out.image_hits) |->
           ImageResult(response.out.image_hits[n])]

\* The place of entry n of seq in the stable descending order: one more than
\* the entries that are more similar, or as similar and earlier.
PlaceOf(seq, n) ==
    1 + Cardinality({m \in 1..Len(seq) :
                        \/ seq[m].similarity > seq[n].similarity
                        \/ seq[m].similarity = seq[n].similarity /\ m < n})

FirstOfStableOrder(seq, k) ==
    [place \in 1..Min(k, Len(seq)) |->
        seq[CHOOSE n \in 1..Len(seq) : PlaceOf(seq, n) = place]]

NonIncreasing(results) ==
    \A m, n \in 1..Len(results) :
        m < n => results[m].similarity >= results[n].similarity

\* C1: a search whose two queries succeeded returns exactly the first k
\* entries of the stable descending order of text results followed by image
\* results: at most k entries, non-increasing in similarity, no Image entry
\* before a Text entry of the same similarity.
C1_MergeIsStableTopK ==
    (Returned /\ ~response.out.image_caught) =>
        LET results == response.out.results
        IN  /\ results = FirstOfStableOrder(Concatenated, response.n_results)
            /\ Len(results) <= response.n_results
            /\ NonIncreasing(results)
            /\ \A m, n \in 1..Len(results) :
                   (/\ m < n
                    /\ results[m].similarity = results[n].similarity
                    /\ results[n].type = "text")
                   => results[m].type = "text"

\* A Text and an Image result tie, the Image result overtook a less similar
\* Text result, and the merged list was cut to k.
C1_Witness ==
    /\ Returned /\ ~response.out.image_caught
    /\ Len(Concatenated) > response.n_results
    /\ response.out.results # SubSeq(Concatenated, 1, response.n_results)
    /\ \E n \in 1..(Len(response.out.results) - 1) :
          /\ response.out.results[n].type = "text"
          /\ response.out.results[n + 1].type = "image"
          /\ response.out.results[n].similarity
               = response.out.results[n + 1].similarity

OnlyText(results) == \A n \in 1..Len(results) : results[n].type = "text"

ImagesOnlyWhenAskedAndAvailable ==
    (Returned /\ ~OnlyText(response.out.results))
        => (response.include_images /\ clip_model)

Degraded ==
    /\ Searched
    /\ ~clip_model
    /\ response.include_images
    /\ ~TextFault(response.fault)

WithoutImages ==
    SearchDb(text_collection, image_collection, clip_model, response.query,
             response.n_results, FALSE, response.fault)

\* C2 as stated: Image results only with includeImages and CLIP; without
\* CLIP, search(q, k, TRUE) raises nothing and returns the very entries of
\* search(q, k, FALSE).
C2_SameAsWithoutImages ==
    /\ ImagesOnlyWhenAskedAndAvailable
    /\ Degraded =>
          /\ ~response.out.raised
          /\ OnlyText(response.out.results)
          /\ response.out.results = WithoutImages.results

\* C2 amended: Image results only with includeImages and CLIP; without
\* CLIP, search(q, k, TRUE) raises nothing, returns Text results only, and
\* they are the entries of search(q, k, FALSE) in the same order except that
\* each carries the image references decoded from its metadata where
\* search(q, k, FALSE) gives an empty list.
C2_SameUpToImageRefs ==
    /\ ImagesOnlyWhenAskedAndAvailable
    /\ Degraded =>
          /\ ~response.out.raised
          /\ OnlyText(response.out.results)
          /\ Len(response.out.results) = Len(WithoutImages.results)
          /\ \A n \in 1..Len(response.out.results) :
                /\ WithoutImages.results[n].images = <<>>
                /\ response.out.results[n] =
                     [WithoutImages.results[n] EXCEPT
                        !.images = JsonLoads(response.out.results[n].metadata.images)]

\* CLIP is missing, images are asked for, the image collection holds records
\* that more than fill the k/2 places, and a returned document has images.
C2_Witness ==
    /\ Degraded
    /\ Len(image_collection) >= 2
    /\ response.n_results >= 2
    /\ \E n \in 1..Len(response.out.results) :
          response.out.results[n].images # <<>>

\* C3: when the text embedding of the query or the text query fails, search
\* raises, returns no list and has not queried the image collection.
C3_TextFailurePropagates ==
    (Searched /\ TextFault(response.fault)) =>
        /\ response.out.raised
        /\ response.out.results = <<>>
        /\ ~response.out.image_queried

\* The text path failed in a search that asked for images with CLIP loaded
\* and both collections filled.
C3_Witness ==
    /\ Searched /\ TextFault(response.fault)
    /\ response.include_images /\ clip_model
    /\ response.n_results >= 2
    /\ text_collection # <<>>
    /\ image_collection # <<>>

\* C4 as stated: whenever the image branch fails, search raises nothing and
\* returns no Image entry: just the text results, sorted and cut to k.
C4_ImageFailureMeansNoImages ==
    (Searched /\ ~TextFault(response.fault) /\ response.out.image_caught) =>
        /\ ~response.out.raised
        /\ OnlyText(response.out.results)
        /\ response.out.results =
             TopResults([n \in 1..Len(response.out.text_hits) |->
                            TextResult(response.out.text_hits[n],
                                       response.include_images)],
                        response.n_results)

(***************************************************************************)
(* Properties of add_articles.                                             *)
(***************************************************************************)
Ended == status \in {"ok", "raised"}

InRun == status \in {"running", "ok", "raised"}

WithId(records, id) == {n \in 1..Len(records) : records[n].id = id}

Encodable(image_path) == clip_model /\ image_path \notin CorruptImages

\* C5: in a run, every article the loop has passed that has title and
\* content has exactly one collected text record, built from its own text
\* and images, and exactly one collected image record for each image that
\* encodes and none for an image that does not; a run that returned has
\* passed every article.
C5_ImageFailureLosesOnlyThatImage ==
    InRun =>
        /\ \A n \in 0..(i - 1) :
              LET article == articles[n + 1]
              IN  HasTitleAndContent(article) =>
                    /\ Cardinality(WithId(text_batch, TextId(n))) = 1
                    /\ \A m \in WithId(text_batch, TextId(n)) :
                          /\ text_batch[m].document = DocText(article)
                          /\ JsonLoads(text_batch[m].metadata.images)
                               = article.images
                    /\ \A j \in 0..(Len(article.images) - 1) :
                          Cardinality(WithId(image_batch, ImageId(n, j)))
                            = IF Encodable(article.images[j + 1]) THEN 1 ELSE 0
        /\ status = "ok" => i = Len(articles)

\* A run returned whose first article has a corrupt image before a valid
\* one and whose second article has a valid image.
C5_Witness ==
    /\ status = "ok"
    /\ clip_model
    /\ Len(articles) = 2
    /\ articles[1].images = <<"corrupt.jpg", "img2.jpg">>
    /\ Ids(text_batch) = {TextId(0), TextId(1)}
    /\ Ids(image_batch) = {ImageId(0, 1), ImageId(1, 0)}

\* C6: a run that repeats the articles of the run before it, which returned,
\* is never refused by add, and when it returns get_stats reports the
\* text and image counts it reported before the run.
C6_RerunKeepsCounts ==
    rerun =>
        /\ raised_by \notin {"text_add_rejected", "image_add_rejected"}
        /\ status = "ok" =>
              LET before == GetStats(text_before, image_before)
                  after == GetStats(text_collection, image_collection)
              IN  /\ after.text_documents = before.text_documents
                  /\ after.image_documents = before.image_documents

\* The second of two equal runs returned after adding both batches again.
C6_Witness ==
    /\ rerun
    /\ status = "ok"
    /\ text_adds = 1
    /\ image_adds = 1
    /\ Len(text_collection) = 2
    /\ Len(image_collection) = 2

\* C7 as stated: after a run returned, the text collection holds, under the
\* id of each position, one record and it is the record of the article the
\* run had at that position.
C7_ReAddReplaces ==
    status = "ok" =>
        \A n \in 0..(Len(articles) - 1) :
            HasTitleAndContent(articles[n + 1]) =>
                /\ Cardinality(WithId(text_collection, TextId(n))) = 1
                /\ \A m \in WithId(text_collection, TextId(n)) :
                      text_collection[m] = TextRecord(articles[n + 1], n)

\* C8: every collected image record names as parent the id of a collected
\* text record, and every stored image record names as parent the id of a
\* stored text record.
C8_NoDanglingParent ==
    /\ \A m \in 1..Len(image_batch) :
          image_batch[m].metadata.parent_article \in Ids(text_batch)
    /\ \A m \in 1..Len(image_collection) :
          image_collection[m].metadata.parent_article \in Ids(text_collection)

\* A second run wrote its text records and failed to write its image
\* records, next to the image records an earlier run left.
C8_Witness ==
    /\ status = "raised"
    /\ raised_by = "image_add"
    /\ image_batch # <<>>
    /\ image_collection # <<>>
    /\ Len(text_collection) > Len(text_before)

PassFinished == Ended /\ raised_by # "text_encode"

NoWriteBeforeTheAdds ==
    /\ pc \in {"loop", "add_text"} =>
          /\ text_collection = text_before
          /\ image_collection = image_before
          /\ text_adds = 0
    /\ InRun /\ pc # "idle" => image_adds = 0
    /\ InRun =>
          /\ text_adds <= 1
          /\ image_adds <= 1
          /\ text_adds = 0 => text_collection = text_before
          /\ image_adds = 0 => image_collection = image_before
    /\ (status = "raised" /\ raised_by = "text_encode") =>
          /\ text_adds = 0 /\ image_adds = 0
          /\ text_collection = text_before
          /\ image_collection = image_before

\* C9 as stated: no write before the loop has ended, at most one add for
\* each collection, and once the run has ended after its loop each add was
\* issued exactly when its batch was not empty.
C9_AddIffCollected ==
    /\ NoWriteBeforeTheAdds
    /\ PassFinished =>
          /\ text_adds = 1 <=> text_batch # <<>>
          /\ image_adds = 1 <=> image_batch # <<>>

\* C9 amended: no write before the loop has ended, at most one add for each
\* collection; once the run has ended after its loop, the add of the text
\* records was issued exactly when text records were collected, and the add
\* of the image records exactly when image records were collected and the
\* add of the text records did not raise.
C9_AddIffCollectedAndReached ==
    /\ NoWriteBeforeTheAdds
    /\ PassFinished =>
          /\ text_adds = 1 <=> text_batch # <<>>
          /\ image_adds = 1 <=>
                (/\ image_batch # <<>>
                 /\ raised_by \notin {"text_add", "text_add_rejected"})

\* The add of the text records raised in a run that had collected image
\* records.
C9_Witness ==
    /\ status = "raised"
    /\ raised_by = "text_add"
    /\ text_adds = 1
    /\ image_batch # <<>>
    /\ image_adds = 0
    /\ image_collection = image_before

\* C10 as stated: a text embedding that fails drops its Document only; it
\* does not end the run.
C10_EncodeFailureIsLocal ==
    ~(status = "raised" /\ raised_by = "text_encode")

\* C11: an article without title or without content is passed over: the
\* run collects no text record and no image record for its position, the
\* run never raises at such an article, and every passed article that has
\* both still has exactly one collected text record.
C11_IncompleteArticleIsSkipped ==
    /\ ~HasTitleAndContent(Article(NoAttr, "body", <<"img1.jpg">>))
    /\ ~HasTitleAndContent(Article("Title", NoAttr, <<"img1.jpg">>))
    /\ InRun =>
          /\ \A n \in 0..(i - 1) :
                IF articles[n + 1].title = NoAttr \/ articles[n + 1].content = NoAttr
                THEN /\ WithId(text_batch, <<"article", n>>) = {}
                     /\ \A m \in 1..Len(image_batch) :
                           /\ image_batch[m].id[2] # n
                           /\ image_batch[m].metadata.parent_article
                                # <<"article", n>>
                ELSE Cardinality(WithId(text_batch, <<"article", n>>)) = 1
          /\ (status = "raised" /\ raised_by = "text_encode") =>
                (articles[i + 1].title # NoAttr /\ articles[i + 1].content # NoAttr)

\* A run returned that passed over an article without content and collected
\* the article after it, images included.
C11_Witness ==
    /\ status = "ok"
    /\ clip_model
    /\ Len(articles) = 2
    /\ articles[1].content = NoAttr
    /\ articles[1].images # <<>>
    /\ Ids(text_batch) = {<<"article", 1>>}
    /\ image_batch # <<>>
    /\ Len(text_collection) = 1

\* What C12 says of a run, with pt and pi the prefixes of the text and the
\* image ids: the collected text ids are pt_n for the passed articles n
\* that have title and content, the collected image ids are pi_n_j for
\* their images j that encode, each with parent pt_n and the path of image
\* j; no id is collected twice; a run that repeats the articles of a run
\* that returned collects ids that are all stored already.
IdsByPosition(pt, pi) ==
    InRun =>
        /\ Ids(text_batch) =
             {<<pt, n>> : n \in {m \in 0..(i - 1) :
                                    HasTitleAndContent(articles[m + 1])}}
        /\ Ids(image_batch) =
             UNION {{<<pi, n, j>> :
                       j \in {l \in 0..(Len(articles[n + 1].images) - 1) :
                                Encodable(articles[n + 1].images[l + 1])}} :
                    n \in {m \in 0..(i - 1) :
                             HasTitleAndContent(articles[m + 1])}}
        /\ \A m \in 1..Len(image_batch) :
              /\ image_batch[m].metadata.parent_article
                   = <<pt, image_batch[m].id[2]>>
              /\ image_batch[m].metadata.image_path
                   = articles[image_batch[m].id[2] + 1].images[image_batch[m].id[3] + 1]
        /\ Cardinality(Ids(text_batch)) = Len(text_batch)
        /\ Cardinality(Ids(image_batch)) = Len(image_batch)
        /\ rerun =>
              /\ Ids(text_batch) \subseteq Ids(text_before)
              /\ Ids(image_batch) \subseteq Ids(image_before)

\* C12 as stated: the ids are "doc_{i}" and "img_{i}_{j}".
C12_IdsAreDocAndImg == IdsByPosition("doc", "img")

\* C12 amended: the ids are "article_{i}" and "image_{i}_{j}", i and j
\* counted from 0; the rest as stated.
C12_IdsAreArticleAndImage == IdsByPosition("article", "image")

\* A run returned whose first article was passed over and whose second
\* article has a corrupt first image: the ids collected are article_1 and
\* image_1_1.
C12_Witness ==
    /\ status = "ok"
    /\ Len(articles) = 2
    /\ ~HasTitleAndContent(articles[1])
    /\ Ids(text_batch) = {<<"article", 1>>}
    /\ Ids(image_batch) = {<<"image", 1, 1>>}

\* The Text results of the response whose images are not those wanted for
\* the article they were built from.
TextResultsWithOtherImages(Wanted(_)) ==
    {n \in 1..Len(response.out.results) :
        /\ response.out.results[n].type = "text"
        /\ ~\E article \in ArticleCatalogue :
               /\ HasTitleAndContent(article)
               /\ DocText(article) = response.out.results[n].content
               /\ response.out.results[n].images = Wanted(article)}

ImagesOf(article) == article.images

ImagesIfIncluded(article) ==
    IF response.include_images THEN article.images ELSE <<>>

\* C13 as stated: every Text result carries the image list of its article,
\* whatever include_images is and with or without CLIP.
C13_ImageRefsRoundTrip ==
    Returned => TextResultsWithOtherImages(ImagesOf) = {}

\* C13 amended: with or without CLIP, every Text result of a search with
\* include_images true carries the ordered image list of its article, as
\* encoded at ingestion and decoded at search; with include_images false
\* it carries an empty list.
C13_ImageRefsRoundTripIfIncluded ==
    Returned => TextResultsWithOtherImages(ImagesIfIncluded) = {}

\* Without CLIP, a search with include_images returned the article that
\* has two images, both listed in order.
C13_Witness ==
    /\ Returned
    /\ ~clip_model
    /\ response.include_images
    /\ \E n \in 1..Len(response.out.results) :
          /\ response.out.results[n].type = "text"
          /\ response.out.results[n].images = <<"corrupt.jpg", "img2.jpg">>

\* C14: what get_stats returned is the number of records of the text
\* collection, the number of records of the image collection and their
\* sum, and the step in which get_stats runs changes neither collection.
C14_StatsAreTheCounts ==
    /\ [](response.op = "stats" =>
            /\ response.out.text_documents = Cardinality(Ids(text_collection))
            /\ response.out.text_documents = Len(text_collection)
            /\ response.out.image_documents = Cardinality(Ids(image_collection))
            /\ response.out.image_documents = Len(image_collection)
            /\ response.out.total_documents
                 = Len(text_collection) + Len(image_collection))
    /\ [][response'.op = "stats" =>
            /\ text_collection' = text_collection
            /\ image_collection' = image_collection]_vars

\* get_stats returned for a store of two text records and two image records.
C14_Witness ==
    /\ response.op = "stats"
    /\ response.out.text_documents = 2
    /\ response.out.image_documents = 2
    /\ response.out.total_documents = 4

\* C15: a step in which search runs, whether it returns or raises and
\* whether its image branch fails or not, leaves the records of both
\* collections, and so their counts, as they were.
C15_SearchIsReadOnly ==
    [][response'.op = "search" =>
          /\ text_collection' = text_collection
          /\ image_collection' = image_collection
          /\ GetStats(text_collection', image_collection')
               = GetStats(text_collection, image_collection)]_vars

\* A search has failed in its image branch, or has raised, over collections
\* that hold records.
C15_Witness ==
    /\ Searched
    /\ response.out.image_caught \/ response.out.raised
    /\ text_collection # <<>>
    /\ Len(image_collection) = 2

ImageEntries(results) == {n \in 1..Len(results) : results[n].type = "image"}

ImageQueryAnswered ==
    /\ Returned
    /\ response.include_images /\ clip_model
    /\ response.fault.at \notin {"clip_text", "image_query"}

\* C16: a search never returns more than floor(k/2) Image entries, and when
\* its image query is answered the hits are the floor(k/2) nearest (all of
\* them when the collection has fewer); for k = 1 with include_images and
\* CLIP, search raises nothing unless the text path fails and returns the
\* one Text result that no stored text record beats in similarity.
C16_AtMostHalfAreImages ==
    (Searched /\ ~TextFault(response.fault)) =>
        /\ Cardinality(ImageEntries(response.out.results))
             <= response.n_results \div 2
        /\ ImageQueryAnswered =>
              Len(response.out.image_hits)
                = Min(response.n_results \div 2, Len(image_collection))
        /\ (response.n_results = 1 /\ response.include_images /\ clip_model) =>
              /\ ~response.out.raised
              /\ ImageEntries(response.out.results) = {}
              /\ Len(response.out.results) = Min(1, Len(text_collection))
              /\ \A n \in 1..Len(response.out.results) :
                    \A m \in 1..Len(text_collection) :
                        response.out.results[n].similarity >=
                          Unit - CosineDistance(TextEncode(<<response.query>>),
                                                text_collection[m].embedding)

\* search(q, 1, TRUE) with CLIP returned one Text result over a store of two
\* text records of different similarity and two image records.
C16_Witness ==
    /\ Returned
    /\ response.n_results = 1
    /\ response.include_images /\ clip_model
    /\ response.fault = NoFault
    /\ Len(response.out.results) = 1
    /\ Len(image_collection) = 2
    /\ Len(text_collection) = 2
    /\ text_collection[1].embedding # text_collection[2].embedding

\* C17: a run returns only if every record it collected is stored, so no
\* add of it failed; the add of the image records is issued only after the
\* text records are stored; a run whose add of the text records failed has
\* ended, raised, without an add of the image records and with the image
\* collection as it was; a run whose add of the image records failed has
\* ended, raised.
C17_FailedAddEndsTheRun ==
    InRun =>
        /\ status = "ok" =>
              /\ Ids(text_batch) \subseteq Ids(text_collection)
              /\ Ids(image_batch) \subseteq Ids(image_collection)
        /\ (image_adds = 1 \/ pc = "add_image") =>
              /\ Ids(text_batch) \subseteq Ids(text_collection)
              /\ text_batch # <<>> => text_adds = 1
        /\ raised_by = "text_add" =>
              /\ status = "raised" /\ pc = "idle"
              /\ image_adds = 0
              /\ image_collection = image_before
        /\ raised_by = "image_add" =>
              /\ status = "raised" /\ pc = "idle"

\* The add of the text records failed in a second run that had collected
\* image records, over a store that holds the records of the first run.
C17_Witness ==
    /\ raised_by = "text_add"
    /\ runs = 2
    /\ image_batch # <<>>
    /\ Ids(image_batch) \ Ids(image_collection) # {}
    /\ image_collection # <<>>
    /\ image_collection = image_before

(***************************************************************************)
(* Properties of the scraper.                                              *)
(***************************************************************************)
\* C18 as stated: no command goes to the driver after quit(); the driver is
\* quit only once the last category is done, and then exactly once; the
\* paging of a category does not end by an exception for want of a 'Load
\* More' button.
C18_DriverQuitOnceAtTheEnd ==
    /\ ~used_after_quit
    /\ sc_pc \in {"get", "page"} => driver = "live"
    /\ quits >= 1 => (sc_pc = "done" /\ category = NumCategories)
    /\ sc_pc = "done" => quits = 1
    /\ paging_end # "unpack_error"

=============================================================================
